---- MODULE Spec2Model ----
(***************************************************************************)
(* hekametrics: a go-metrics exporter that encodes every metric of a       *)
(* registry into one Heka message and sends it to a Heka server.           *)
(*                                                                         *)
(* The module models src/hekalogger.go:                                    *)
(*   NewHekaClient   construction and scheme validation                    *)
(*   write           the reconnecting sender                               *)
(*   Stop, LogHeka   the flush loop and its stop channel                   *)
(*   make_message    the flattening of metrics into message fields         *)
(* Spec    is the client, the flush loop and the sender.                   *)
(* LiveSpec is Spec with the fairness of the Go scheduler and of select.   *)
(* MsgSpec applies make_message to registries built by Register.           *)
(***************************************************************************)
EXTENDS Integers, Sequences, FiniteSets, TLC

\* ------------------------------------------------------------------ bounds
\* Number of waits the interval timer may end (cycles started by the timer).
MaxCycles == 2
\* Length of the outcome oracles handed to one write call: the k-th
\* connection attempt of the call gets co[k], the k-th transmit so[k].
MaxOutcomes == 3
\* Largest registry MsgSpec and TwiceSpec build.
MaxMetrics == 2
\* Number of Stop() calls the callers make.
MaxStopCalls == 2
\* Largest registry MapSpec encodes around a short value list.
MaxRest == 1

\* ------------------------------------------------------------- state
VARIABLES
    hc,         \* what NewHekaClient returned: ret, err, connect_s, msgtype, hostname
    sender,     \* hc.sender: NilSender or a live connection
    openConns,  \* sockets opened by NewNetworkSender and not yet closed
    dialed,     \* history: NewNetworkSender has been called at least once
    stopClosed, \* hc.stop has been closed
    stopCalls,  \* history: number of Stop() calls made
    panicked,   \* the process died of a run-time panic
    pc,         \* position of the LogHeka goroutine
    running,    \* LogHeka's local variable running
    stream,     \* LogHeka's local variable stream (the encoded bytes)
    cyc,        \* history of the current loop iteration
    registry,   \* the metrics.Registry: a set of metrics with unique names
    msg,        \* the message last built by make_message
    prevMsg     \* history: the message built by the make_message call before

vars == <<hc, sender, openConns, dialed, stopClosed, stopCalls, panicked, pc,
          running, stream, cyc, registry, msg, prevMsg>>

NilSender == "nil"
Conn == "conn"
None == [none |-> TRUE]

\* ------------------------------------------------------ NewHekaClient
\* Connection strings tried by the callers of NewHekaClient.
ConnectStrings ==
    { "tcp://127.0.0.1:5564", "udp://127.0.0.1:5564", "TCP://host:1",
      "http://host:1", "host:1", "/var/run/heka.sock", "127.0.0.1:5564", "" }

MsgTypes == { "teststats", "appstats" }

\* url.ParseRequestURI on the strings above: an error for the empty string
\* and for a string with no scheme that is not an absolute path; otherwise
\* the URL, its scheme lower-cased, Host set only after "//".
ParseRequestURI(connect) ==
    CASE connect = "tcp://127.0.0.1:5564" ->
            [err |-> "nil", Scheme |-> "tcp", Host |-> "127.0.0.1:5564"]
      [] connect = "udp://127.0.0.1:5564" ->
            [err |-> "nil", Scheme |-> "udp", Host |-> "127.0.0.1:5564"]
      [] connect = "TCP://host:1" ->
            [err |-> "nil", Scheme |-> "tcp", Host |-> "host:1"]
      [] connect = "http://host:1" ->
            [err |-> "nil", Scheme |-> "http", Host |-> "host:1"]
      [] connect = "host:1" ->
            [err |-> "nil", Scheme |-> "host", Host |-> ""]
      [] connect = "/var/run/heka.sock" ->
            [err |-> "nil", Scheme |-> "", Host |-> ""]
      [] OTHER ->
            [err |-> "parse", Scheme |-> "", Host |-> ""]

\* A scheme check that lets every scheme through.
SchemeSupportedAny(scheme) == TRUE

\* switch hc.connect_s.Scheme { case "tcp", "udp": default: return nil, err }
SchemeSupported(scheme) == scheme \in { "tcp", "udp" }

NoClient == [ret |-> "none", err |-> "nil", connect |-> "", given |-> "",
             connect_s |-> None, msgtype |-> "", hostname |-> ""]

\* The result of NewHekaClient(connect, msgtype); hostErr is the outcome of
\* os.Hostname.  connect and given record the two arguments.
NewHekaClientResult(connect, msgtype, hostErr) ==
    LET u == ParseRequestURI(connect) IN
    IF u.err # "nil"
    THEN [ret |-> "nil", err |-> "parse", connect |-> connect, given |-> msgtype,
          connect_s |-> None, msgtype |-> "", hostname |-> ""]
    ELSE IF ~SchemeSupported(u.Scheme)
    THEN [ret |-> "nil", err |-> "scheme", connect |-> connect, given |-> msgtype,
          connect_s |-> None, msgtype |-> "", hostname |-> ""]
    ELSE [ret |-> "client", err |-> "nil", connect |-> connect, given |-> msgtype,
          connect_s |-> [Scheme |-> u.Scheme, Host |-> u.Host],
          msgtype |-> msgtype,
          hostname |-> IF hostErr THEN "<no hostname>" ELSE "localhost"]

NewHekaClient ==
    /\ hc.ret = "none"
    /\ ~panicked
    /\ \E connect \in ConnectStrings, msgtype \in MsgTypes, hostErr \in BOOLEAN :
          hc' = NewHekaClientResult(connect, msgtype, hostErr)
    /\ UNCHANGED <<sender, openConns, dialed, stopClosed, stopCalls, panicked,
                   pc, running, stream, cyc, registry, msg, prevMsg>>

\* ------------------------------------------------------------- write
ConnectEvents == { "Connect:ok", "Connect:fail" }
SendEvents == { "Send:ok", "Send:fail" }

CountEv(trace, evs) == Cardinality({ i \in DOMAIN trace : trace[i] \in evs })

Oracles == [1..MaxOutcomes -> BOOLEAN]

\* A reconnect that drops a held connection without closing it.
reconnectNoClose(st, co) ==
    LET dropped == [st EXCEPT !.sender = NilSender]
        k == CountEv(dropped.trace, ConnectEvents) + 1
        logged == Append(dropped.trace, "Log:Connecting")
    IN  IF co[k]
        THEN [dropped EXCEPT !.sender = Conn,
                             !.open = @ + 1,
                             !.trace = Append(logged, "Connect:ok"),
                             !.err = "nil"]
        ELSE [dropped EXCEPT !.trace = logged \o <<"Connect:fail", "Log:ErrConnecting">>,
                             !.err = "connect"]

\* The closure reconnect of write: close and drop a held connection, then
\* dial; co[k] tells whether the k-th dial of this call succeeds.
reconnect(st, co) ==
    LET closed == IF st.sender # NilSender
                  THEN [st EXCEPT !.sender = NilSender,
                                  !.open = @ - 1,
                                  !.trace = Append(@, "Close")]
                  ELSE st
        k == CountEv(closed.trace, ConnectEvents) + 1
        logged == Append(closed.trace, "Log:Connecting")
    IN  IF co[k]
        THEN [closed EXCEPT !.sender = Conn,
                            !.open = @ + 1,
                            !.trace = Append(logged, "Connect:ok"),
                            !.err = "nil"]
        ELSE [closed EXCEPT !.sender = NilSender,
                            !.trace = logged \o <<"Connect:fail", "Log:ErrConnecting">>,
                            !.err = "connect"]

\* hc.sender.SendMessage(b); so[k] tells whether the k-th transmit of this
\* call succeeds.  A call through a nil interface panics.
SendMessage(st, so) ==
    IF st.sender = NilSender
    THEN [st EXCEPT !.trace = Append(@, "Panic:nil-sender"), !.err = "panic"]
    ELSE LET k == CountEv(st.trace, SendEvents) + 1 IN
         IF so[k]
         THEN [st EXCEPT !.trace = Append(@, "Send:ok"), !.err = "nil"]
         ELSE [st EXCEPT !.trace = Append(@, "Send:fail"), !.err = "send"]

\* A retried transmit whose result is lost: the call returns the error of
\* the first transmit.
retriedSendKeepsFirstErr(st, so) ==
    [SendMessage(st, so) EXCEPT !.err = "send"]

\* Lines 122-128: the retried SendMessage and the value write returns.
retriedSend(st, so) == SendMessage(st, so)

\* A write that keeps reconnecting and resending while the oracles last.
onSendErrorLoop(st, co, so) ==
    LET r1 == reconnect([st EXCEPT !.trace = Append(@, "Log:SendErr")], co) IN
    IF r1.err # "nil" THEN r1
    ELSE LET s1 == SendMessage(r1, so) IN
         IF s1.err = "nil" THEN s1
         ELSE LET r2 == reconnect(s1, co) IN
              IF r2.err # "nil" THEN r2 ELSE SendMessage(r2, so)

\* A write that gives up at the first failed transmit: no reconnect, no retry.
onSendErrorNoRetry(st, co, so) ==
    [st EXCEPT !.trace = Append(@, "Log:SendErr")]

\* A write that resends even when its reconnect failed.
onSendErrorIgnoresConnectErr(st, co, so) ==
    SendMessage(reconnect([st EXCEPT !.trace = Append(@, "Log:SendErr")], co), so)

\* Lines 116-127: what write does once the first SendMessage has failed.
onSendError(st, co, so) ==
    LET r == reconnect([st EXCEPT !.trace = Append(@, "Log:SendErr")], co) IN
    IF r.err # "nil" THEN r ELSE retriedSend(r, so)

\* A write that does not return when its first connection attempt fails.
writeNoEarlyReturn(sender0, open0, co, so) ==
    LET st0 == [sender |-> sender0, open |-> open0, trace |-> <<>>, err |-> "nil"]
        st1 == IF st0.sender = NilSender THEN reconnect(st0, co) ELSE st0
        st2 == SendMessage(st1, so)
    IN  IF st2.err = "send" THEN onSendError(st2, co, so) ELSE st2

\* write(b): the state of the sender on return, the error returned and the
\* trace of what the call did.
write(sender0, open0, co, so) ==
    LET st0 == [sender |-> sender0, open |-> open0, trace |-> <<>>, err |-> "nil"]
        st1 == IF st0.sender = NilSender THEN reconnect(st0, co) ELSE st0
    IN  IF st1.err # "nil"
        THEN st1
        ELSE LET st2 == SendMessage(st1, so) IN
             IF st2.err = "send" THEN onSendError(st2, co, so) ELSE st2

\* ------------------------------------------------------ the registry
Kinds == { "Counter", "Gauge", "GaugeFloat64", "Histogram", "Meter", "Timer" }

\* Metric names; "x.count" and "x.histogram" are names a caller may
\* register next to "x".
MetricNames == { "x", "x.count", "x.histogram", "requests" }

\* What the accessors of a metric return.  "distinct" gives every accessor
\* its own value; "example" is a timer with count=10, min=1, max=100,
\* mean=50.0, stddev=20.0, rate1=2.0, a counter of 42 and a gauge of 0.73.
\* float64 values are written in hundredths.
Profiles == { "distinct", "example" }

Accessors == << "p50", "p75", "p95", "p99", "p999", "mean", "stddev",
                "rate1", "rate5", "rate15", "rateMean",
                "count", "min", "max", "value" >>

IndexOf(seq, x) == CHOOSE i \in DOMAIN seq : seq[i] = x

Acc(m, a) ==
    IF m.prof = "distinct" THEN IndexOf(Accessors, a)
    ELSE CASE a = "count" -> IF m.kind = "Counter" THEN 42 ELSE 10
           [] a = "min" -> 1
           [] a = "max" -> 100
           [] a = "mean" -> 5000
           [] a = "stddev" -> 2000
           [] a = "rate1" -> 200
           [] a = "value" -> 73
           [] OTHER -> 0

Metrics == [kind : Kinds, name : MetricNames, prof : Profiles]

RegistryNames(r) == { m.name : m \in r }

\* Go values handed to the message package.
I64(n) == [go |-> "int64", n |-> n]
F64(h) == [go |-> "float64", n |-> h]

\* ------------------------------------------------------- make_message
\* fmt.Sprintf("%s.%s", pref, n)
Dotted(pref, n) == pref \o "." \o n

\* message.NewField(name, value, representation): the field type follows
\* the Go type of value.
NewField(name, v, rep) ==
    CASE v.go = "float64" ->
            [err |-> FALSE,
             f |-> [name |-> name, type |-> "DOUBLE", value |-> v.n, representation |-> rep]]
      [] v.go = "int64" ->
            [err |-> FALSE,
             f |-> [name |-> name, type |-> "INTEGER", value |-> v.n, representation |-> rep]]
      [] OTHER -> [err |-> TRUE, f |-> None]

\* A NewInt64Field that replaces the fields of the message by the new one.
NewInt64FieldOverwrite(fields, name, n, rep) ==
    << [name |-> name, type |-> "INTEGER", value |-> n, representation |-> rep] >>

\* message.NewInt64Field(msg, name, val, representation) adds the field.
NewInt64Field(fields, name, n, rep) ==
    Append(fields, [name |-> name, type |-> "INTEGER", value |-> n, representation |-> rep])

\* The closure add_float_mapping: names[i] is paired with vals[i]; a name
\* with no value is skipped.
RECURSIVE add_float_mapping_from(_, _, _, _, _)
add_float_mapping_from(fields, pref, names, vals, i) ==
    IF i > Len(names) THEN fields
    ELSE LET n == Dotted(pref, names[i]) IN
         IF i > Len(vals)
         THEN add_float_mapping_from(fields, pref, names, vals, i + 1)
         ELSE LET r == NewField(n, F64(vals[i]), "") IN
              add_float_mapping_from(IF r.err THEN fields ELSE Append(fields, r.f),
                                     pref, names, vals, i + 1)

\* An add_float_mapping that emits nothing unless every name has a value.
add_float_mapping_strict(fields, pref, names, vals) ==
    IF Len(vals) < Len(names) THEN fields
    ELSE add_float_mapping_from(fields, pref, names, vals, 1)

add_float_mapping(fields, pref, names, vals) ==
    add_float_mapping_from(fields, pref, names, vals, 1)

\* for i, n := range names { NewInt64Field(msg, prefix.n, vals_i[i], rep) }
RECURSIVE add_int_mapping_from(_, _, _, _, _, _)
add_int_mapping_from(fields, pref, names, vals, withRep, i) ==
    IF i > Len(names) THEN fields
    ELSE LET n == Dotted(pref, names[i]) IN
         add_int_mapping_from(NewInt64Field(fields, n, vals[i], IF withRep THEN n ELSE ""),
                              pref, names, vals, withRep, i + 1)

\* h.Percentiles([]float64{0.5, 0.75, 0.95, 0.99, 0.999}): one value for
\* each percentile asked, in the order asked.
Percentiles(m) ==
    << Acc(m, "p50"), Acc(m, "p75"), Acc(m, "p95"), Acc(m, "p99"), Acc(m, "p999") >>

HistogramNames ==
    << "50-percentile", "75-percentile", "95-percentile", "99-percentile",
       "999-percentile", "mean", "std-dev" >>

\* A meter whose rate names are bound to the rates in the wrong order.
MeterValsSwapped(m) ==
    << Acc(m, "rate5"), Acc(m, "rate1"), Acc(m, "rate15"), Acc(m, "rateMean") >>

\* vals_fl := []float64{m.Rate1(), m.Rate5(), m.Rate15(), m.RateMean()}
MeterVals(m) ==
    << Acc(m, "rate1"), Acc(m, "rate5"), Acc(m, "rate15"), Acc(m, "rateMean") >>

MeterNames == << "one-minute", "five-minute", "fifteen-minute", "mean" >>

TimerNames ==
    << "50-percentile", "75-percentile", "95-percentile", "99-percentile",
       "999-percentile", "mean", "std-dev", "one-minute", "five-minute",
       "fifteen-minute", "mean-rate" >>

IntNames == << "count", "min", "max" >>

IntVals(m) == << Acc(m, "count"), Acc(m, "min"), Acc(m, "max") >>

\* The callback given to r.Each: the fields of one metric, by kind.
EachMetric(fields, m) ==
    CASE m.kind = "Counter" -> NewInt64Field(fields, m.name, Acc(m, "count"), "")
      [] m.kind = "Gauge" -> NewInt64Field(fields, m.name, Acc(m, "value"), "")
      [] m.kind = "GaugeFloat64" ->
            LET r == NewField(m.name, F64(Acc(m, "value")), "") IN
            IF r.err THEN fields ELSE Append(fields, r.f)
      [] m.kind = "Histogram" ->
            LET vals_fl == Percentiles(m) \o << Acc(m, "mean"), Acc(m, "stddev") >>
                fl == add_float_mapping(fields, Dotted(m.name, "histogram"),
                                        HistogramNames, vals_fl)
            IN  add_int_mapping_from(fl, Dotted(m.name, "histogram"),
                                     IntNames, IntVals(m), TRUE, 1)
      [] m.kind = "Meter" ->
            LET c == NewInt64Field(fields, Dotted(m.name, "count"), Acc(m, "count"), "")
            IN  add_float_mapping(c, m.name, MeterNames, MeterVals(m))
      [] m.kind = "Timer" ->
            LET vals_fl == Percentiles(m) \o
                           << Acc(m, "mean"), Acc(m, "stddev"), Acc(m, "rate1"),
                              Acc(m, "rate5"), Acc(m, "rate15"), Acc(m, "rateMean") >>
                fl == add_float_mapping(fields, Dotted(m.name, "timer"),
                                        TimerNames, vals_fl)
            IN  add_int_mapping_from(fl, Dotted(m.name, "timer"),
                                     IntNames, IntVals(m), FALSE, 1)
      [] OTHER -> fields

\* r.Each visits the metrics in the order of a Go map iteration: any order.
EachOrders(r) ==
    { o \in [1..Cardinality(r) -> r] :
        \A i, j \in 1..Cardinality(r) : i # j => o[i] # o[j] }

RECURSIVE make_message_from(_, _, _)
make_message_from(fields, order, i) ==
    IF i > Len(order) THEN fields
    ELSE make_message_from(EachMetric(fields, order[i]), order, i + 1)

\* make_message(r) for the iteration order `order`: only Fields is set.
make_message(order) ==
    [Fields |-> make_message_from(<<>>, order, 1),
     Timestamp |-> None, Uuid |-> None, Logger |-> None, Type |-> None,
     Pid |-> None, Severity |-> None, Hostname |-> None, Payload |-> None,
     registry |-> { order[i] : i \in DOMAIN order }]

\* ---------------------------------------------------- Stop and LogHeka
NoCycle == [n |-> 0, wake |-> "none", snapshot |-> FALSE, encode |-> "none",
            write |-> None, prevErr |-> "none"]

\* The error the write call of the iteration that ends returned.
LastErr == IF cyc.write = None THEN "none" ELSE cyc.write.err

\* Registries handed to LogHeka.
LoopRegistries ==
    { {},
      { [kind |-> "Counter", name |-> "requests", prof |-> "example"],
        [kind |-> "GaugeFloat64", name |-> "x", prof |-> "example"] } }

Init ==
    /\ hc = NoClient
    /\ sender = NilSender
    /\ openConns = 0
    /\ dialed = FALSE
    /\ stopClosed = FALSE
    /\ panicked = FALSE
    /\ pc = "idle"
    /\ running = FALSE
    /\ stream = <<>>
    /\ cyc = NoCycle
    /\ registry = {}
    /\ msg = None
    /\ stopCalls = 0
    /\ prevMsg = None

\* A Stop whose second call does nothing.
StopIdempotent ==
    /\ hc.ret = "client"
    /\ ~panicked
    /\ stopCalls < MaxStopCalls
    /\ stopCalls' = stopCalls + 1
    /\ stopClosed' = TRUE
    /\ UNCHANGED <<hc, sender, openConns, dialed, panicked, pc, running, stream,
                   cyc, registry, msg, prevMsg>>

\* Stop(): close(hc.stop); closing a closed channel panics.
Stop ==
    /\ hc.ret = "client"
    /\ ~panicked
    /\ stopCalls < MaxStopCalls
    /\ stopCalls' = stopCalls + 1
    /\ IF stopClosed
       THEN panicked' = TRUE /\ UNCHANGED stopClosed
       ELSE stopClosed' = TRUE /\ UNCHANGED panicked
    /\ UNCHANGED <<hc, sender, openConns, dialed, pc, running, stream, cyc,
                   registry, msg, prevMsg>>

\* go client.LogHeka(r, d): the locals are initialised, the loop is entered.
LogHeka ==
    /\ hc.ret = "client"
    /\ ~panicked
    /\ pc = "idle"
    /\ \E r \in LoopRegistries : registry' = r
    /\ running' = TRUE
    /\ stream' = <<>>
    /\ cyc' = NoCycle
    /\ pc' = "wait"
    /\ UNCHANGED <<hc, sender, openConns, dialed, stopClosed, stopCalls,
                   panicked, msg, prevMsg>>

\* A receive from the stop channel that reports the channel still open.
StopRecvOkOpen == TRUE

\* case _, running = <-hc.stop: a receive from a closed channel gives ok = false.
StopRecvOk == FALSE

\* select, case <-time.After(d): the wait ends by the timer.
SelectTimer ==
    /\ pc = "wait"
    /\ ~panicked
    /\ cyc.n < MaxCycles
    /\ cyc' = [NoCycle EXCEPT !.n = cyc.n + 1, !.wake = "timer",
                              !.prevErr = LastErr]
    /\ pc' = "flush"
    /\ UNCHANGED <<hc, sender, openConns, dialed, stopClosed, stopCalls,
                   panicked, running, stream, registry, msg, prevMsg>>

\* select, case _, running = <-hc.stop: the wait ends by the closed channel.
SelectStop ==
    /\ pc = "wait"
    /\ ~panicked
    /\ stopClosed
    /\ cyc.n <= MaxCycles
    /\ running' = StopRecvOk
    /\ cyc' = [NoCycle EXCEPT !.n = cyc.n + 1, !.wake = "stop",
                              !.prevErr = LastErr]
    /\ pc' = "flush"
    /\ UNCHANGED <<hc, sender, openConns, dialed, stopClosed, stopCalls,
                   panicked, stream, registry, msg, prevMsg>>

\* hc.encoder.EncodeMessageStream(msg, &stream): the bytes of m on success;
\* stream keeps what it held on error.
EncodeMessageStream(m, old, ok) ==
    IF ok THEN [bytesOf |-> m] ELSE old

\* msg.SetSeverity(100)
Severity == 100

\* An envelope with the logger and the type labels exchanged.
SetEnvelopeSwapped(m, now) ==
    [m EXCEPT !.Timestamp = now, !.Uuid = now, !.Logger = hc.msgtype,
              !.Type = "go-metrics", !.Pid = "pid", !.Severity = Severity,
              !.Hostname = hc.hostname, !.Payload = ""]

\* Lines 155-162: the envelope LogHeka sets on the message.
SetEnvelope(m, now) ==
    [m EXCEPT !.Timestamp = now, !.Uuid = now, !.Logger = "go-metrics",
              !.Type = hc.msgtype, !.Pid = "pid", !.Severity = Severity,
              !.Hostname = hc.hostname, !.Payload = ""]

\* Lines 154-167: snapshot, envelope, encode.
Flush ==
    /\ pc = "flush"
    /\ ~panicked
    /\ \E order \in EachOrders(registry), encOk \in BOOLEAN :
          /\ msg' = SetEnvelope(make_message(order), cyc.n)
          /\ stream' = EncodeMessageStream(msg', stream, encOk)
          /\ cyc' = [cyc EXCEPT !.snapshot = TRUE,
                                !.encode = IF encOk THEN "ok" ELSE "err"]
    /\ pc' = "write"
    /\ UNCHANGED <<hc, sender, openConns, dialed, stopClosed, stopCalls,
                   panicked, running, registry, prevMsg>>

\* A loop that returns when a send fails.
AfterWriteReturnOnError(run, err) ==
    IF err = "panic" THEN "crashed"
    ELSE IF run /\ err = "nil" THEN "wait" ELSE "done"

\* Lines 168-173 and the loop test `for running`.
AfterWrite(run, err) ==
    IF err = "panic" THEN "crashed"
    ELSE IF run THEN "wait" ELSE "done"

\* Lines 168-173: hc.write(stream), the log line of LogHeka, the loop test.
WriteStep ==
    /\ pc = "write"
    /\ ~panicked
    /\ \E co \in Oracles, so \in Oracles :
          LET res == write(sender, openConns, co, so) IN
          /\ sender' = res.sender
          /\ openConns' = res.open
          /\ dialed' = (dialed \/ CountEv(res.trace, ConnectEvents) > 0)
          /\ panicked' = (res.err = "panic")
          /\ cyc' = [cyc EXCEPT !.write =
                       [entry |-> sender, after |-> res.sender, err |-> res.err,
                        sent |-> stream,
                        trace |-> IF res.err \in {"nil", "panic"} THEN res.trace
                                  ELSE Append(res.trace, "Log:LoopSendErr")]]
          /\ pc' = AfterWrite(running, res.err)
    /\ UNCHANGED <<hc, stopClosed, stopCalls, running, stream, registry, msg,
                   prevMsg>>

Next == NewHekaClient \/ Stop \/ LogHeka \/ SelectTimer \/ SelectStop \/ Flush \/ WriteStep

Spec == Init /\ [][Next]_vars

\* The goroutine running LogHeka is scheduled and every connect and
\* transmit returns (WF of Flush and WriteStep); select picks among the
\* ready cases at random, so a case that is ready at every wait is
\* eventually taken (SF of SelectStop).
LiveSpec ==
    Spec /\ WF_vars(Flush) /\ WF_vars(WriteStep) /\ SF_vars(SelectStop)

\* ------------------------------------------- make_message on registries
\* r.Register(name, metric): a name already registered is refused.
Register ==
    /\ Cardinality(registry) < MaxMetrics
    /\ \E m \in Metrics :
          /\ m.name \notin RegistryNames(registry)
          /\ registry' = registry \cup {m}
    /\ UNCHANGED <<hc, sender, openConns, dialed, stopClosed, stopCalls,
                   panicked, pc, running, stream, cyc, msg, prevMsg>>

\* make_message(r) called on the registry as it stands.
MakeMessage ==
    /\ \E order \in EachOrders(registry) : msg' = make_message(order)
    /\ UNCHANGED <<hc, sender, openConns, dialed, stopClosed, stopCalls,
                   panicked, pc, running, stream, cyc, registry, prevMsg>>

MsgNext == Register \/ MakeMessage

MsgSpec == Init /\ [][MsgNext]_vars

\* --------------------------------------- make_message called twice
\* Registries of at most k metrics of distinct names.
RegistriesUpTo(k) ==
    UNION { { { [kind |-> f[n], name |-> n, prof |-> "distinct"] : n \in ns } :
                f \in [ns -> Kinds] } :
            ns \in { x \in SUBSET MetricNames : Cardinality(x) <= k } }

InitWith(registries) ==
    /\ hc = NoClient
    /\ sender = NilSender
    /\ openConns = 0
    /\ dialed = FALSE
    /\ stopClosed = FALSE
    /\ panicked = FALSE
    /\ pc = "idle"
    /\ running = FALSE
    /\ stream = <<>>
    /\ cyc = NoCycle
    /\ registry \in registries
    /\ msg = None
    /\ stopCalls = 0
    /\ prevMsg = None

\* make_message(r) called twice on a registry nobody updates in between;
\* each call iterates in an order of its own.
EncodeTwice ==
    /\ msg = None
    /\ \E o1 \in EachOrders(registry), o2 \in EachOrders(registry) :
          /\ prevMsg' = make_message(o1)
          /\ msg' = make_message(o2)
    /\ UNCHANGED <<hc, sender, openConns, dialed, stopClosed, stopCalls,
                   panicked, pc, running, stream, cyc, registry>>

TwiceNext == EncodeTwice

TwiceSpec == InitWith(RegistriesUpTo(MaxMetrics)) /\ [][TwiceNext]_vars

\* ------------------------------- add_float_mapping on short value lists
\* The name lists add_float_mapping is called with, each with a prefix.
MappingInputs ==
    { [pref |-> "s.histogram", names |-> HistogramNames],
      [pref |-> "s", names |-> MeterNames],
      [pref |-> "s.timer", names |-> TimerNames] }

\* make_message on a registry that holds, besides the metrics of
\* `registry`, a metric s whose snapshot hands add_float_mapping only k
\* values; s is visited after the first `at` metrics of the order.
AddFloatMapping ==
    /\ msg = None
    /\ \E in \in MappingInputs, order \in EachOrders(registry) :
       \E k \in 0..Len(in.names), at \in 0..Len(order) :
          LET vals == [i \in 1..k |-> i]
              head == make_message_from(<<>>, SubSeq(order, 1, at), 1)
              mapped == add_float_mapping(head, in.pref, in.names, vals)
          IN  msg' = [Fields |-> make_message_from(mapped, order, at + 1),
                      pref |-> in.pref, names |-> in.names, vals |-> vals,
                      at |-> at, registry |-> registry]
    /\ prevMsg' = None
    /\ UNCHANGED <<hc, sender, openConns, dialed, stopClosed, stopCalls,
                   panicked, pc, running, stream, cyc, registry>>

MapNext == AddFloatMapping

MapSpec == InitWith(RegistriesUpTo(MaxRest)) /\ [][MapNext]_vars

\* =============================================================== claims
\* The write call of the current loop iteration has returned.
WriteReturned == cyc.write # None

Sends(trace) == SelectSeq(trace, LAMBDA e : e \in SendEvents)
Connects(trace) == SelectSeq(trace, LAMBDA e : e \in ConnectEvents)

\* Position of the k-th transmit of a trace (0 when there is none).
SendPos(trace, k) ==
    IF CountEv(trace, SendEvents) < k THEN 0
    ELSE CHOOSE i \in DOMAIN trace :
            /\ trace[i] \in SendEvents
            /\ CountEv(SubSeq(trace, 1, i), SendEvents) = k

\* The first transmit failed, the reconnect that followed it succeeded and
\* the retried transmit succeeded.
RetrySucceeded(trace) ==
    /\ Len(Sends(trace)) >= 2
    /\ Sends(trace)[1] = "Send:fail"
    /\ Sends(trace)[2] = "Send:ok"
    /\ \E j \in DOMAIN trace :
          /\ SendPos(trace, 1) < j
          /\ j < SendPos(trace, 2)
          /\ trace[j] = "Connect:ok"

\* C1: a write call whose first transmit fails and whose following reconnect
\* and retried transmit both succeed returns nil and leaves the sender
\* holding a connection, whatever the sender held on entry.
C1_RetrySuccessReturnsNilConnected ==
    (WriteReturned /\ RetrySucceeded(cyc.write.trace))
        => (cyc.write.err = "nil" /\ cyc.write.after = Conn /\ sender = Conn)

\* C1 witness: such a call entered with no connection has returned.
C1_Witness ==
    /\ WriteReturned
    /\ cyc.write.entry = NilSender
    /\ RetrySucceeded(cyc.write.trace)

\* Both the first and the retried transmit of the call failed.
BothSendsFailed(trace) ==
    /\ Len(Sends(trace)) >= 2
    /\ Sends(trace)[1] = "Send:fail"
    /\ Sends(trace)[2] = "Send:fail"

\* C2: a write call whose first and retried transmits both fail returns a
\* failure and leaves the sender holding no connection.
C2_DoubleFailureDisconnected ==
    (WriteReturned /\ BothSendsFailed(cyc.write.trace))
        => (cyc.write.err # "nil" /\ cyc.write.after = NilSender)

\* C3: when the wait of the loop is ended by the stop signal, no snapshot,
\* encode or send is performed after that wait.
C3_StopWakeNoFlush ==
    cyc.wake = "stop"
        => (~cyc.snapshot /\ cyc.encode = "none" /\ cyc.write = None)

\* C4: one write call makes at most two connection attempts and at most two
\* transmit attempts.
C4_AttemptBound ==
    WriteReturned
        => /\ CountEv(cyc.write.trace, ConnectEvents) <= 2
           /\ CountEv(cyc.write.trace, SendEvents) <= 2

\* C4 witness: a call that made two connection attempts and two transmits.
C4_Witness ==
    /\ WriteReturned
    /\ CountEv(cyc.write.trace, ConnectEvents) = 2
    /\ CountEv(cyc.write.trace, SendEvents) = 2

\* C5: a cycle whose EncodeMessageStream returned an error makes no
\* connection attempt and no transmit attempt.
C5_EncodeErrorAbortsSend ==
    (cyc.encode = "err" /\ WriteReturned)
        => /\ CountEv(cyc.write.trace, ConnectEvents) = 0
           /\ CountEv(cyc.write.trace, SendEvents) = 0

LoopRunning == pc \in { "wait", "flush", "write" }

\* C6: once Stop has been called while LogHeka is running, LogHeka
\* eventually returns (or the process has died of a second Stop).
C6_StopEventuallyReturns ==
    (stopClosed /\ LoopRunning) ~> (pc = "done" \/ panicked)

\* C6 witness: LogHeka ran a timer cycle, was stopped and has returned.
C6_Witness ==
    /\ pc = "done"
    /\ stopClosed
    /\ ~panicked
    /\ cyc.n >= 2

\* C7: LogHeka returns only after Stop has been called; after a cycle begun
\* by the timer, whatever its encode and send errors, the loop is back at
\* its wait.
C7_OnlyStopTerminates ==
    /\ pc = "done" => (stopClosed /\ cyc.wake = "stop")
    /\ (cyc.wake = "timer" /\ WriteReturned /\ ~panicked) => pc = "wait"

\* C7 witness: a cycle with an encode error and a send error has ended and
\* the loop waits again, Stop not called.
C7_Witness ==
    /\ pc = "wait"
    /\ ~stopClosed
    /\ cyc.encode = "err"
    /\ WriteReturned
    /\ cyc.write.err # "nil"

\* The connection string has scheme tcp or udp.
HasSupportedScheme(connect) ==
    /\ ParseRequestURI(connect).err = "nil"
    /\ ParseRequestURI(connect).Scheme \in { "tcp", "udp" }

C9_FieldNamesUnique ==
    msg # None
        => \A i, j \in DOMAIN msg.Fields :
              i # j => msg.Fields[i].name # msg.Fields[j].name

\* The naming table: the fields of one metric as <<name, type, value>>.
TableRows(m) ==
    CASE m.kind = "Counter" -> << <<m.name, "INTEGER", Acc(m, "count")>> >>
      [] m.kind = "Gauge" -> << <<m.name, "INTEGER", Acc(m, "value")>> >>
      [] m.kind = "GaugeFloat64" -> << <<m.name, "DOUBLE", Acc(m, "value")>> >>
      [] m.kind = "Histogram" ->
           << <<m.name \o ".histogram.50-percentile", "DOUBLE", Acc(m, "p50")>>,
              <<m.name \o ".histogram.75-percentile", "DOUBLE", Acc(m, "p75")>>,
              <<m.name \o ".histogram.95-percentile", "DOUBLE", Acc(m, "p95")>>,
              <<m.name \o ".histogram.99-percentile", "DOUBLE", Acc(m, "p99")>>,
              <<m.name \o ".histogram.999-percentile", "DOUBLE", Acc(m, "p999")>>,
              <<m.name \o ".histogram.mean", "DOUBLE", Acc(m, "mean")>>,
              <<m.name \o ".histogram.std-dev", "DOUBLE", Acc(m, "stddev")>>,
              <<m.name \o ".histogram.count", "INTEGER", Acc(m, "count")>>,
              <<m.name \o ".histogram.min", "INTEGER", Acc(m, "min")>>,
              <<m.name \o ".histogram.max", "INTEGER", Acc(m, "max")>> >>
      [] m.kind = "Meter" ->
           << <<m.name \o ".count", "INTEGER", Acc(m, "count")>>,
              <<m.name \o ".one-minute", "DOUBLE", Acc(m, "rate1")>>,
              <<m.name \o ".five-minute", "DOUBLE", Acc(m, "rate5")>>,
              <<m.name \o ".fifteen-minute", "DOUBLE", Acc(m, "rate15")>>,
              <<m.name \o ".mean", "DOUBLE", Acc(m, "rateMean")>> >>
      [] m.kind = "Timer" ->
           << <<m.name \o ".timer.50-percentile", "DOUBLE", Acc(m, "p50")>>,
              <<m.name \o ".timer.75-percentile", "DOUBLE", Acc(m, "p75")>>,
              <<m.name \o ".timer.95-percentile", "DOUBLE", Acc(m, "p95")>>,
              <<m.name \o ".timer.99-percentile", "DOUBLE", Acc(m, "p99")>>,
              <<m.name \o ".timer.999-percentile", "DOUBLE", Acc(m, "p999")>>,
              <<m.name \o ".timer.mean", "DOUBLE", Acc(m, "mean")>>,
              <<m.name \o ".timer.std-dev", "DOUBLE", Acc(m, "stddev")>>,
              <<m.name \o ".timer.one-minute", "DOUBLE", Acc(m, "rate1")>>,
              <<m.name \o ".timer.five-minute", "DOUBLE", Acc(m, "rate5")>>,
              <<m.name \o ".timer.fifteen-minute", "DOUBLE", Acc(m, "rate15")>>,
              <<m.name \o ".timer.mean-rate", "DOUBLE", Acc(m, "rateMean")>>,
              <<m.name \o ".timer.count", "INTEGER", Acc(m, "count")>>,
              <<m.name \o ".timer.min", "INTEGER", Acc(m, "min")>>,
              <<m.name \o ".timer.max", "INTEGER", Acc(m, "max")>> >>

RECURSIVE TableOfSet(_)
TableOfSet(r) ==
    IF r = {} THEN <<>>
    ELSE LET m == CHOOSE x \in r : TRUE IN TableRows(m) \o TableOfSet(r \ {m})

FieldRows(fields) ==
    [i \in DOMAIN fields |-> <<fields[i].name, fields[i].type, fields[i].value>>]

Occurrences(rows, t) == Cardinality({ i \in DOMAIN rows : rows[i] = t })

\* The two sequences hold the same rows the same number of times.
SameRows(a, b) ==
    /\ Len(a) = Len(b)
    /\ \A t \in { a[i] : i \in DOMAIN a } \cup { b[i] : i \in DOMAIN b } :
          Occurrences(a, t) = Occurrences(b, t)

\* C10: the message holds, for every metric of the registry, exactly the
\* fields of the naming table, each name with its type and with the value
\* of the accessor the table binds to it.
C10_FieldsMatchNamingTable ==
    msg # None => SameRows(FieldRows(msg.Fields), TableOfSet(msg.registry))

\* C10 witness: the message of a registry holding the timer x of the
\* example (count=10, min=1, max=100, mean=50.0, rate1=2.0) and one more
\* metric.
C10_Witness ==
    /\ msg # None
    /\ Cardinality(msg.registry) = 2
    /\ [kind |-> "Timer", name |-> "x", prof |-> "example"] \in msg.registry
    /\ \E i \in DOMAIN msg.Fields :
          msg.Fields[i] = [name |-> "x.timer.one-minute", type |-> "DOUBLE",
                           value |-> 200, representation |-> ""]
    /\ \E i \in DOMAIN msg.Fields :
          msg.Fields[i] = [name |-> "x.timer.count", type |-> "INTEGER",
                           value |-> 10, representation |-> ""]

\* C11: the bytes a cycle transmits are the serialization of that cycle's
\* own message, never bytes produced in an earlier cycle.
C11_OnlyOwnSnapshotSent ==
    (WriteReturned /\ CountEv(cyc.write.trace, SendEvents) > 0
                   /\ cyc.write.sent # <<>>)
        => /\ cyc.write.sent = [bytesOf |-> msg]
           /\ cyc.write.sent.bytesOf.Timestamp = cyc.n

\* In this call every connection attempt succeeded and every transmit made
\* on a connection the call itself established succeeded.
EndpointReachable(trace) ==
    \A i \in DOMAIN trace :
        /\ trace[i] \in ConnectEvents => trace[i] = "Connect:ok"
        /\ (trace[i] \in SendEvents /\ \E j \in 1..(i - 1) : trace[j] = "Connect:ok")
              => trace[i] = "Send:ok"

\* C12: whatever earlier cycles left behind, a write call in which every
\* new connection attempt succeeds and every transmit on a newly
\* established connection succeeds returns nil and leaves the sender
\* connected; this holds of that cycle and of every later one.
C12_RecoveryAfterLoss ==
    (WriteReturned /\ EndpointReachable(cyc.write.trace))
        => (cyc.write.err = "nil" /\ cyc.write.after = Conn /\ sender = Conn)

\* C12 witness: the cycle before failed and left a dead connection; this
\* cycle's first transmit failed on it, the call reconnected and succeeded.
C12_Witness ==
    /\ WriteReturned
    /\ cyc.prevErr \in { "connect", "send" }
    /\ cyc.write.entry = Conn
    /\ EndpointReachable(cyc.write.trace)
    /\ Sends(cyc.write.trace) = << "Send:fail", "Send:ok" >>
    /\ cyc.write.err = "nil"

\* C13: every message LogHeka hands to the serializer has logger
\* "go-metrics", the type given to NewHekaClient, severity 100 and an
\* empty payload.
C13_EnvelopeLabels ==
    cyc.snapshot
        => /\ msg.Logger = "go-metrics"
           /\ msg.Type = hc.given
           /\ msg.Severity = 100
           /\ msg.Payload = ""

\* C13 witness: the second cycle of a client made with type "appstats" has
\* built its message.
C13_Witness ==
    /\ cyc.snapshot
    /\ cyc.n = 2
    /\ hc.given = "appstats"
    /\ msg.Type = "appstats"

\* C14: a write call entered with no connection whose connection attempt
\* fails returns the connect error, makes no transmit and no second
\* connection attempt, and leaves the sender with no connection.
C14_ConnectFailureReturns ==
    (WriteReturned /\ cyc.write.entry = NilSender
                   /\ Len(Connects(cyc.write.trace)) >= 1
                   /\ Connects(cyc.write.trace)[1] = "Connect:fail")
        => /\ cyc.write.err = "connect"
           /\ CountEv(cyc.write.trace, SendEvents) = 0
           /\ CountEv(cyc.write.trace, ConnectEvents) = 1
           /\ "Panic:nil-sender" \notin { cyc.write.trace[i] : i \in DOMAIN cyc.write.trace }
           /\ cyc.write.after = NilSender
           /\ sender = NilSender

\* C14 witness: such a call has returned.
C14_Witness ==
    /\ WriteReturned
    /\ cyc.write.entry = NilSender
    /\ Connects(cyc.write.trace) = << "Connect:fail" >>

ConnectFailureLogs == { "Log:ErrConnecting" }
SendFailureLogs == { "Log:SendErr", "Log:LoopSendErr" }

\* C15: one flush cycle logs at most one connect-failure line and at most
\* one send-failure line, the lines of write and of LogHeka counted.
C15_OneLogLineEach ==
    WriteReturned
        => /\ CountEv(cyc.write.trace, ConnectFailureLogs) <= 1
           /\ CountEv(cyc.write.trace, SendFailureLogs) <= 1

\* Connections open just before step i of a call entered holding `entry`.
OpenBefore(trace, entry, i) ==
    (IF entry = Conn THEN 1 ELSE 0)
    + Cardinality({ j \in 1..(i - 1) : trace[j] = "Connect:ok" })
    - Cardinality({ j \in 1..(i - 1) : trace[j] = "Close" })

\* C16: the sender has at most one open connection, the one it holds: every
\* dial is made with no connection open, and no socket the sender opened
\* stays open once dropped or replaced.
C16_OneConnection ==
    /\ openConns = IF sender = Conn THEN 1 ELSE 0
    /\ WriteReturned
          => \A i \in DOMAIN cyc.write.trace :
                cyc.write.trace[i] \in ConnectEvents
                   => OpenBefore(cyc.write.trace, cyc.write.entry, i) = 0

\* C16 witness: a call entered with a connection closed it and holds its
\* replacement.
C16_Witness ==
    /\ WriteReturned
    /\ cyc.write.entry = Conn
    /\ \E i \in DOMAIN cyc.write.trace : cyc.write.trace[i] = "Close"
    /\ cyc.write.after = Conn
    /\ openConns = 1

\* The fields of the message named n.
FieldsNamed(fields, n) == { j \in DOMAIN fields : fields[j].name = n }

\* C17: when add_float_mapping gets fewer values than names, exactly the
\* names at index >= len(values) are absent, every name below is emitted
\* once with the value of its index, and the other metrics of the registry
\* are all encoded.
C17_ShortValuesSkipped ==
    msg # None
        => /\ \A i \in DOMAIN msg.names :
                LET occ == FieldsNamed(msg.Fields, Dotted(msg.pref, msg.names[i])) IN
                IF i > Len(msg.vals)
                THEN occ = {}
                ELSE /\ Cardinality(occ) = 1
                     /\ \A j \in occ : /\ msg.Fields[j].type = "DOUBLE"
                                       /\ msg.Fields[j].value = msg.vals[i]
           /\ SameRows(FieldRows(SelectSeq(msg.Fields,
                          LAMBDA f : \A i \in DOMAIN msg.names :
                                        f.name # Dotted(msg.pref, msg.names[i]))),
                       TableOfSet(msg.registry))

\* C17 witness: three values for the seven histogram names, the short
\* metric visited before another metric of the registry.
C17_Witness ==
    /\ msg # None
    /\ msg.names = HistogramNames
    /\ Len(msg.vals) = 3
    /\ msg.at = 0
    /\ msg.registry # {}

\* C18: a second Stop() on the same client faults, whatever LogHeka is
\* doing; the first closes the stop channel.
C18_SecondStopFaults ==
    /\ stopCalls >= 1 => stopClosed
    /\ stopCalls >= 2 => panicked

\* C18 witness: Stop was called a second time after LogHeka had returned.
C18_Witness ==
    /\ stopCalls = 2
    /\ panicked
    /\ pc = "done"

\* C19: two make_message calls on the same unchanged registry give the
\* same field mapping: the same names, each with the same type and value,
\* the same number of times.
C19_EncodeTwiceSameFields ==
    (prevMsg # None /\ msg # None /\ prevMsg.registry = msg.registry)
        => SameRows(FieldRows(prevMsg.Fields), FieldRows(msg.Fields))

\* C19 witness: the two calls visited a two-metric registry in different
\* orders.
C19_Witness ==
    /\ prevMsg # None
    /\ msg # None
    /\ Cardinality(msg.registry) = 2
    /\ prevMsg.Fields # msg.Fields

\* C20: no write call invokes SendMessage on a nil sender: every transmit
\* is made while a connection is held, and the call does not panic.
C20_NoSendOnNilSender ==
    /\ pc # "crashed"
    /\ WriteReturned
          => /\ cyc.write.err # "panic"
             /\ \A i \in DOMAIN cyc.write.trace :
                   /\ cyc.write.trace[i] # "Panic:nil-sender"
                   /\ cyc.write.trace[i] \in SendEvents
                        => OpenBefore(cyc.write.trace, cyc.write.entry, i) = 1

\* C20 witness: a call entered with no connection dialed, sent, reconnected
\* and sent again.
C20_Witness ==
    /\ WriteReturned
    /\ cyc.write.entry = NilSender
    /\ CountEv(cyc.write.trace, SendEvents) = 2

====
